---- MODULE Spec2Model ----
(***************************************************************************)
(* Model of the `cancer` command-line library (src/src/command.rs,         *)
(* src/src/flag.rs, src/src/help.rs, src/src/version.rs).                  *)
(*                                                                         *)
(* A Command is built by Command::new (which injects the help and version  *)
(* flags) and any number of add_flag calls; Command::execute then reads    *)
(* the process arguments, partitions them with update_flags, and ends in   *)
(* exactly one of four places: the help exit, the version exit, the        *)
(* "no input" help fallback, or the call of the user handler.              *)
(*                                                                         *)
(* Strings are TLA+ strings; TLC evaluates \o, Len and SubSeq on them, so  *)
(* format!, == and starts_with are computed character by character.        *)
(***************************************************************************)
EXTENDS Naturals, Sequences, FiniteSets, TLC

(***************************************************************************)
(* Bounds of the model.                                                    *)
(***************************************************************************)
\* at most this many add_flag calls after Command::new
MaxUserFlags == 2
\* at most this many tokens after the program path in env::args()
MaxUserTokens == 2

(***************************************************************************)
(* Program constants.                                                      *)
(***************************************************************************)
FLAG_SHORT_START == "-"
FLAG_LONG_START == "--"
HELP_SHORT == "h"
HELP_LONG == "help"
VERSION_SHORT == "v"
VERSION_LONG == "version"
\* env!("CARGO_PKG_NAME") / env!("CARGO_PKG_VERSION"): fixed when the crate is built
PKG_NAME == "cancer"
PKG_VERSION == "0.1.0"

\* the description and usage handed to Command::new (the hello example's)
description == "gives a friendly hello"
usage == "hello TEXT"

(***************************************************************************)
(* FlagValue and Flag (flag.rs).                                           *)
(***************************************************************************)
None == "None"
Bool(b) == [kind |-> "Bool", payload |-> b]
String(o) == [kind |-> "String", payload |-> o]
Int(o) == [kind |-> "Int", payload |-> o]
Float(o) == [kind |-> "Float", payload |-> o]

Flag_new(short, long, desc, value) ==
    [short |-> short, long |-> long, description |-> desc, value |-> value]

new_bool(short, long, desc) == Flag_new(short, long, desc, Bool(FALSE))
new_string(short, long, desc) == Flag_new(short, long, desc, String(None))
new_int(short, long, desc) == Flag_new(short, long, desc, Int(None))
new_float(short, long, desc) == Flag_new(short, long, desc, Float(None))

\* str::starts_with
starts_with(s, p) == Len(s) >= Len(p) /\ SubSeq(s, 1, Len(p)) = p

\* a plausible slip: prefix matching instead of equality
is_match_prefix(flag, arg) ==
    \/ starts_with(arg, FLAG_SHORT_START \o flag.short)
    \/ starts_with(arg, FLAG_LONG_START \o flag.long)

\* Flag::is_match
is_match(flag, arg) ==
    \/ arg = FLAG_SHORT_START \o flag.short
    \/ arg = FLAG_LONG_START \o flag.long

\* flag::is_flag
is_flag(arg) ==
    starts_with(arg, FLAG_SHORT_START) \/ starts_with(arg, FLAG_LONG_START)

(***************************************************************************)
(* The inputs: the flags a caller may add and the process arguments.       *)
(***************************************************************************)
\* the flags handed to add_flag: the example's (f, ferris), flags that share
\* a reserved short id, and one flag of every typed constructor
UserFlags ==
    { new_bool("f", "ferris", "say hello from ferris"),
      new_string("h", "hi", "whom to greet"),
      new_int("f", "ferris", "how many ferrises"),
      new_float("v", "ver", "volume") }

\* element 0 of env::args(): a path, or whatever the parent process put there
ProgramPaths == { "target/debug/hello", "-f", "-h", "-v" }

\* the tokens a user may type
Tokens ==
    { "world", "again", "-h", "--help", "-v", "--version",
      "-f", "--ferris", "--hi", "--ver", "-x" }

RECURSIVE SeqsUpTo(_, _)
SeqsUpTo(S, n) ==
    IF n = 0 THEN { <<>> }
    ELSE LET shorter == SeqsUpTo(S, n - 1)
         IN  shorter \cup { Append(s, x) : s \in shorter, x \in S }

\* util::get_args: the values env::args().collect() may return
ArgLists ==
    { <<p>> \o t : p \in ProgramPaths, t \in SeqsUpTo(Tokens, MaxUserTokens) }

(***************************************************************************)
(* State.                                                                  *)
(***************************************************************************)
VARIABLES
    pc,         \* "build" until execute is called, then the return execute took
    flags,      \* Command.flags
    raw_args,   \* what get_args() returned in execute
    args,       \* execute's local `args` after update_flags (the simple args)
    stdout,     \* the strings handed to println!, in order
    runs        \* the calls of Command.run: [text, flags]

vars == <<pc, flags, raw_args, args, stdout, runs>>

(***************************************************************************)
(* Command (command.rs), help.rs, version.rs.                              *)
(***************************************************************************)
\* Command::new: the flags it injects, in order
Command_new ==
    << new_bool(HELP_SHORT, HELP_LONG, "help for " \o PKG_NAME),
       new_bool(VERSION_SHORT, VERSION_LONG, "version for " \o PKG_NAME) >>

\* a plausible slip: clear the flags that do not match
set_matched_or_clear(fl, arg) ==
    [i \in 1..Len(fl) |->
        [fl[i] EXCEPT !.value = Bool(is_match(fl[i], arg))]]

\* update_flags, the inner loop: every flag matching arg becomes Bool(true)
set_matched(fl, arg) ==
    [i \in 1..Len(fl) |->
        IF is_match(fl[i], arg)
        THEN [fl[i] EXCEPT !.value = Bool(TRUE)]
        ELSE fl[i]]

\* a plausible slip (the one of an earlier variant): the flag token is removed
\* from the vector being iterated, so the element after it is never examined
RECURSIVE update_flags_loop_skipping(_, _, _)
update_flags_loop_skipping(fl, rest, simple_args) ==
    IF rest = <<>>
    THEN [flags |-> fl, simple_args |-> simple_args]
    ELSE IF ~is_flag(Head(rest))
         THEN update_flags_loop_skipping(fl, Tail(rest), Append(simple_args, Head(rest)))
         ELSE IF Tail(rest) = <<>>
              THEN [flags |-> set_matched(fl, Head(rest)), simple_args |-> simple_args]
              ELSE update_flags_loop_skipping(set_matched(fl, Head(rest)),
                       Tail(Tail(rest)), Append(simple_args, Head(Tail(rest))))

\* a plausible slip: a flag token that matches no flag is kept as a simple arg
RECURSIVE update_flags_loop_keeping(_, _, _)
update_flags_loop_keeping(fl, rest, simple_args) ==
    IF rest = <<>>
    THEN [flags |-> fl, simple_args |-> simple_args]
    ELSE IF ~is_flag(Head(rest)) \/ set_matched(fl, Head(rest)) = fl
         THEN update_flags_loop_keeping(fl, Tail(rest), Append(simple_args, Head(rest)))
         ELSE update_flags_loop_keeping(set_matched(fl, Head(rest)), Tail(rest), simple_args)

\* a plausible slip: flag tokens are only looked at before the first simple arg
\* that follows the program path
RECURSIVE update_flags_loop_stopping(_, _, _)
update_flags_loop_stopping(fl, rest, simple_args) ==
    IF rest = <<>>
    THEN [flags |-> fl, simple_args |-> simple_args]
    ELSE IF ~is_flag(Head(rest))
         THEN update_flags_loop_stopping(fl, Tail(rest), Append(simple_args, Head(rest)))
         ELSE IF Len(simple_args) > 1
              THEN update_flags_loop_stopping(fl, Tail(rest), simple_args)
              ELSE update_flags_loop_stopping(set_matched(fl, Head(rest)), Tail(rest), simple_args)

\* update_flags, the outer loop over args, with the flags and simple_args so far
RECURSIVE update_flags_loop(_, _, _)
update_flags_loop(fl, rest, simple_args) ==
    IF rest = <<>>
    THEN [flags |-> fl, simple_args |-> simple_args]
    ELSE IF ~is_flag(Head(rest))
         THEN update_flags_loop(fl, Tail(rest), Append(simple_args, Head(rest)))
         ELSE update_flags_loop(set_matched(fl, Head(rest)), Tail(rest), simple_args)

\* Command::update_flags: the flags afterwards and the vector it returns
update_flags(fl, as) == update_flags_loop(fl, as, <<>>)

\* Command::get_flags
get_flags(fl) ==
    SelectSeq(fl, LAMBDA f : ~(f.short = HELP_SHORT \/ f.short = VERSION_SHORT))

\* impl Display for Flag
Display(flag) ==
    "  " \o FLAG_SHORT_START \o flag.short \o ", "
         \o FLAG_LONG_START \o flag.long \o "\t" \o flag.description

\* a plausible slip: a flag that is already set is left out of the listing
RECURSIVE flag_lines_unset_only(_)
flag_lines_unset_only(fl) ==
    IF fl = <<>> THEN ""
    ELSE IF Head(fl).value = Bool(TRUE) THEN flag_lines_unset_only(Tail(fl))
    ELSE Display(Head(fl)) \o "\n" \o flag_lines_unset_only(Tail(fl))

RECURSIVE flag_lines(_)
flag_lines(fl) ==
    IF fl = <<>> THEN ""
    ELSE Display(Head(fl)) \o "\n" \o flag_lines(Tail(fl))

\* DefaultHelpRender::help_text
help_text(fl) ==
    description \o "\n" \o "\n" \o "Usage:\n" \o "  " \o usage \o "\n"
        \o "\n" \o "Flags:\n" \o flag_lines(fl)

\* DefaultVersionRender::version_text
version_text == PKG_NAME \o " version " \o PKG_VERSION

\* a plausible slip: only the first flag with this short id is looked at
is_set_first_only(fl, short) ==
    \E i \in 1..Len(fl) :
        /\ fl[i].short = short
        /\ \A j \in 1..(i - 1) : fl[j].short # short
        /\ fl[i].value = Bool(TRUE)

\* the loop of help_exit and version_exit: some flag with this short id is Bool(true)
is_set(fl, short) ==
    \E i \in 1..Len(fl) : fl[i].short = short /\ fl[i].value = Bool(TRUE)

\* Command::help_exit, its result
help_exit(fl) == is_set(fl, HELP_SHORT)

\* Command::version_exit, its result
version_exit(fl) == is_set(fl, VERSION_SHORT)

(***************************************************************************)
(* Initial state: Command::new has returned.                               *)
(***************************************************************************)
Init ==
    /\ pc = "build"
    /\ flags = Command_new
    /\ raw_args = <<>>
    /\ args = <<>>
    /\ stdout = <<>>
    /\ runs = <<>>

\* Command::add_flag
add_flag(flag) ==
    /\ pc = "build"
    /\ Len(flags) < Len(Command_new) + MaxUserFlags
    /\ flags' = Append(flags, flag)
    /\ UNCHANGED <<pc, raw_args, args, stdout, runs>>

\* a plausible slip: the version check placed before the help check
exit_taken_version_first(fl, simple_args) ==
    IF version_exit(fl) THEN "version_exit"
    ELSE IF help_exit(fl) THEN "help_exit"
    ELSE IF Len(simple_args) <= 1 THEN "no_input"
    ELSE "dispatched"

\* Command::execute, lines 123-137: which of its four returns execute takes
exit_taken(fl, simple_args) ==
    IF help_exit(fl) THEN "help_exit"
    ELSE IF version_exit(fl) THEN "version_exit"
    ELSE IF Len(simple_args) <= 1 THEN "no_input"
    ELSE "dispatched"

\* Command::execute, what the return taken handed to println!
\* a plausible slip: the return for too few args prints nothing
printed_silent_no_input(exit, fl) ==
    CASE exit = "help_exit" -> << help_text(fl) >>
      [] exit = "version_exit" -> << version_text >>
      [] exit = "no_input" -> << >>
      [] exit = "dispatched" -> << >>

printed(exit, fl) ==
    CASE exit = "help_exit" -> << help_text(fl) >>
      [] exit = "version_exit" -> << version_text >>
      [] exit = "no_input" -> << help_text(fl) >>
      [] exit = "dispatched" -> << >>

\* a plausible slip: the help and version exits lack their return, so the
\* handler is called whenever a second simple arg exists
handler_calls_fallthrough(exit, fl, simple_args) ==
    IF Len(simple_args) > 1
    THEN << [ text |-> simple_args[2], flags |-> get_flags(fl) ] >>
    ELSE << >>

\* Command::execute, lines 135-137: the call of the handler, with args[1] (Rust's index 1)
handler_calls(exit, fl, simple_args) ==
    IF exit = "dispatched"
    THEN << [ text |-> simple_args[2], flags |-> get_flags(fl) ] >>
    ELSE << >>

\* Command::execute on a command with flags fl when env::args() is argv:
\* the flags afterwards, the local args, what was printed, the handler calls
execute_result(fl, argv) ==
    LET updated == update_flags(fl, argv)
        exit == exit_taken(updated.flags, updated.simple_args)
    IN  [ pc |-> exit,
          flags |-> updated.flags,
          args |-> updated.simple_args,
          stdout |-> printed(exit, updated.flags),
          runs |-> handler_calls(exit, updated.flags, updated.simple_args) ]

\* Command::execute, from get_args to its return; pc records the return taken
execute(argv) ==
    /\ raw_args' = argv
    /\ flags' = update_flags(flags, argv).flags
    /\ args' = update_flags(flags, argv).simple_args
    /\ pc' = exit_taken(flags', args')
    /\ stdout' = stdout \o printed(pc', flags')
    /\ runs' = runs \o handler_calls(pc', flags', args')

Next ==
    \/ \E flag \in UserFlags : add_flag(flag)
    \/ /\ pc = "build"
       /\ \E argv \in ArgLists : execute(argv)

Spec == Init /\ [][Next]_vars

TypeOK ==
    /\ pc \in { "build", "help_exit", "version_exit", "no_input", "dispatched" }
    /\ Len(flags) >= Len(Command_new)
    /\ Len(stdout) <= 1
    /\ Len(runs) <= 1

(***************************************************************************)
(* Vocabulary of the properties.                                           *)
(***************************************************************************)
\* execute has returned
Returned == pc \in { "help_exit", "version_exit", "no_input", "dispatched" }

\* the tokens after the program path
user_tokens == Tail(raw_args)

\* some token of the sequence matches the flag
Matched(flag, tokens) == \E i \in 1..Len(tokens) : is_match(flag, tokens[i])

\* the token occurs in the sequence
Holds(tokens, t) == \E i \in 1..Len(tokens) : tokens[i] = t

\* the token does not begin with the character "-"
NotDashed(t) == ~(Len(t) >= 1 /\ SubSeq(t, 1, 1) = "-")

\* the sequence without its k-th element
Without(tokens, k) == SubSeq(tokens, 1, k - 1) \o SubSeq(tokens, k + 1, Len(tokens))

\* the program path of the documentation's examples
OrdinaryPath == "target/debug/hello"

(***************************************************************************)
(* C1.                                                                     *)
(***************************************************************************)
\* C1: whatever flags are declared, when execute runs with a raw argument list
\* that holds only the program path, the help text is printed and the handler
\* is not called.
C1_HelpOnProgramPathAlone ==
    (Returned /\ Len(raw_args) = 1)
        => (stdout = << help_text(flags) >> /\ runs = << >>)

(***************************************************************************)
(* C2.                                                                     *)
(***************************************************************************)
\* C2, first part: a raw argument list with "-h" or "--help" after the program path ends in the
\* help exit: the help is printed once and the handler is not called
C2_HelpTokenGivesHelp ==
    (Returned /\ (Holds(user_tokens, "-h") \/ Holds(user_tokens, "--help")))
        => /\ pc = "help_exit"
           /\ stdout = << help_text(flags) >>
           /\ runs = << >>

\* C2, second part: the runs with ["-h"] and with ["--help"] print the same help and call no handler
C2_SameHelpOutput ==
    pc = "build" =>
        \A p \in ProgramPaths :
            LET short_run == execute_result(flags, << p, "-h" >>)
                long_run == execute_result(flags, << p, "--help" >>)
            IN  /\ short_run.stdout = long_run.stdout
                /\ short_run.stdout = << help_text(flags) >>
                /\ short_run.runs = << >>
                /\ long_run.runs = << >>

\* C2 as stated: a raw argument list holding "-h" or "--help" after the program
\* path prints the help and never calls the handler, and the runs with ["-h"]
\* and with ["--help"] give the same help output and the same final flag values.
C2_Original ==
    /\ C2_HelpTokenGivesHelp
    /\ C2_SameHelpOutput
    /\ pc = "build" =>
        \A p \in ProgramPaths :
            execute_result(flags, << p, "-h" >>).flags
                = execute_result(flags, << p, "--help" >>).flags

(***************************************************************************)
(* C3.                                                                     *)
(***************************************************************************)
\* C3 as stated: when the raw argument list holds "-v" or "--version" and
\* neither "-h" nor "--help", the version text "{name} version {version}" is
\* printed exactly once, no help is printed and the handler is not called.
C3_Original ==
    ( /\ Returned
      /\ Holds(raw_args, "-v") \/ Holds(raw_args, "--version")
      /\ ~Holds(raw_args, "-h")
      /\ ~Holds(raw_args, "--help") )
        => /\ pc = "version_exit"
           /\ stdout = << PKG_NAME \o " version " \o PKG_VERSION >>
           /\ runs = << >>

(***************************************************************************)
(* C4.                                                                     *)
(***************************************************************************)
\* C4: when the argument list sets both the help flag and the version flag, in
\* either order, only the help is printed: no version text, no handler call.
C4_HelpBeforeVersion ==
    ( /\ Returned
      /\ Matched(flags[1], raw_args)
      /\ Matched(flags[2], raw_args) )
        => /\ pc = "help_exit"
           /\ stdout = << help_text(flags) >>
           /\ runs = << >>

\* the version token came first, the help token second, and the help was printed
C4_Witness ==
    /\ raw_args = << OrdinaryPath, "--version", "-h" >>
    /\ flags[1].value = Bool(TRUE)
    /\ flags[2].value = Bool(TRUE)
    /\ pc = "help_exit"
    /\ stdout = << help_text(flags) >>

(***************************************************************************)
(* C5.                                                                     *)
(***************************************************************************)
\* C5: when no help and no version flag is set and the user gave at least one
\* positional token, the handler is called once, with the first positional
\* token of the user as input and with the declared flags minus the help and
\* version flags, in declaration order.
C5_HandlerGetsFirstPositional ==
    ( /\ Returned
      /\ ~help_exit(flags)
      /\ ~version_exit(flags)
      /\ SelectSeq(user_tokens, NotDashed) # << >> )
        => /\ pc = "dispatched"
           /\ runs = << [ text |-> Head(SelectSeq(user_tokens, NotDashed)),
                          flags |-> SelectSeq(flags,
                              LAMBDA f : f.short \notin { HELP_SHORT, VERSION_SHORT }) ] >>

(***************************************************************************)
(* C6.                                                                     *)
(***************************************************************************)
\* C6: update_flags returns exactly the tokens of its input that do not start
\* with "-", in their order and unchanged, none skipped, repeated or moved,
\* also when flag tokens stand next to each other.
C6_SimpleArgsAreTheUndashedTokens ==
    Returned => args = SelectSeq(raw_args, NotDashed)

\* two flag tokens next to each other, then a positional token, which was kept
C6_Witness ==
    /\ Returned
    /\ raw_args = << "-f", "--hi", "world" >>
    /\ args = << "world" >>

(***************************************************************************)
(* C7.                                                                     *)
(***************************************************************************)
\* C7: a token that starts with a flag prefix and matches no declared flag is
\* silently dropped: update_flags gives the flags and the simple args it gives
\* without that token, so the token is no simple arg and changes no flag value;
\* and with the user tokens ["-x", "world"] after an ordinary program path the
\* positional result is ["world"] and the handler is called with "world".
C7_UnknownFlagTokenDropped ==
    /\ pc = "build" =>
        \A argv \in ArgLists : \A k \in 1..Len(argv) :
            ( /\ is_flag(argv[k])
              /\ \A i \in 1..Len(flags) : ~is_match(flags[i], argv[k]) )
                => /\ update_flags(flags, argv) = update_flags(flags, Without(argv, k))
                   /\ ~Holds(update_flags(flags, argv).simple_args, argv[k])
    /\ (Returned /\ raw_args = << OrdinaryPath, "-x", "world" >>)
        => /\ Tail(args) = << "world" >>
           /\ pc = "dispatched"
           /\ Len(runs) = 1
           /\ runs[1].text = "world"
           /\ \A i \in 1..Len(flags) : flags[i].value # Bool(TRUE)

\* the run of the example: "-x" is undeclared and the handler got "world"
C7_Witness ==
    /\ raw_args = << OrdinaryPath, "-x", "world" >>
    /\ Len(flags) > Len(Command_new)
    /\ pc = "dispatched"
    /\ runs[1].text = "world"

(***************************************************************************)
(* C8.                                                                     *)
(***************************************************************************)
\* C8: when the handler is called, every boolean flag in the list it receives
\* is true exactly if some argument token equals "-" + short or "--" + long of
\* that flag, whether the token stood before or after the positional token;
\* with the tokens ["world", "-f"] the input is "world" and the f flag is true.
C8_HandlerSeesFlagsOfAllTokens ==
    /\ pc = "dispatched" =>
        \A j \in 1..Len(runs[1].flags) :
            LET f == runs[1].flags[j]
            IN  f.value.kind = "Bool" =>
                    (f.value.payload <=>
                        \E k \in 1..Len(raw_args) :
                            \/ raw_args[k] = "-" \o f.short
                            \/ raw_args[k] = "--" \o f.long)
    /\ (Returned /\ raw_args = << OrdinaryPath, "world", "-f" >>)
        => /\ pc = "dispatched"
           /\ runs[1].text = "world"
           /\ \A j \in 1..Len(runs[1].flags) :
                runs[1].flags[j].short = "f" => runs[1].flags[j].value = Bool(TRUE)

\* the run of the example: the flag token came after the positional token
C8_Witness ==
    /\ raw_args = << OrdinaryPath, "world", "-f" >>
    /\ pc = "dispatched"
    /\ \E j \in 1..Len(runs[1].flags) :
        /\ runs[1].flags[j].short = "f"
        /\ runs[1].flags[j].value = Bool(TRUE)

(***************************************************************************)
(* C9.                                                                     *)
(***************************************************************************)
\* the tokens is_match is tried on for a flag: the tokens of the model, the
\* flag's own forms, and near misses (other prefix, longer, shorter, other case)
MatchProbes(flag) ==
    Tokens \cup
    { "-" \o flag.short, "--" \o flag.long, "-" \o flag.long, "--" \o flag.short,
      flag.short, flag.long, "-" \o flag.short \o "x", "--" \o flag.long \o "=1",
      "---" \o flag.long, "--" \o SubSeq(flag.long, 1, Len(flag.long) - 1),
      "-", "--", "", "-H", "-V", "-F", "--HELP", "--Ferris" }

\* the token is "-", then exactly the short id, or "--", then exactly the long id
ExactForm(flag, t) ==
    \/ /\ Len(t) = 1 + Len(flag.short)
       /\ SubSeq(t, 1, 1) = "-"
       /\ SubSeq(t, 2, Len(t)) = flag.short
    \/ /\ Len(t) = 2 + Len(flag.long)
       /\ SubSeq(t, 1, 2) = "--"
       /\ SubSeq(t, 3, Len(t)) = flag.long

\* C9: is_match(flag, token) is true exactly if token is "-" followed by
\* flag.short or "--" followed by flag.long (exact, case-sensitive, no prefix
\* matching); so "-" + short and "--" + long match, and "-" + long does not
\* unless short = long.
C9_IsMatchIsExact ==
    pc = "build" =>
        \A i \in 1..Len(flags) :
            /\ \A t \in MatchProbes(flags[i]) :
                is_match(flags[i], t) <=> ExactForm(flags[i], t)
            /\ is_match(flags[i], "-" \o flags[i].short)
            /\ is_match(flags[i], "--" \o flags[i].long)
            /\ flags[i].short # flags[i].long
                => ~is_match(flags[i], "-" \o flags[i].long)

\* a command with a user flag whose ids differ, on which is_match was tried
C9_Witness ==
    /\ pc = "build"
    /\ Len(flags) > Len(Command_new)
    /\ flags[3].short # flags[3].long
    /\ is_match(flags[3], "--" \o flags[3].long)
    /\ ~is_match(flags[3], "-" \o flags[3].long)

(***************************************************************************)
(* C10.                                                                    *)
(***************************************************************************)
\* C10: the kind (variant) of a flag's value never changes after declaration:
\* a flag declared Text, Integer or FloatingPoint still has that variant after
\* partitioning, whatever the arguments.
C10_KindNeverChanges ==
    [][\A i \in 1..Len(flags) : flags'[i].value.kind = flags[i].value.kind]_vars

(***************************************************************************)
(* C11.                                                                    *)
(***************************************************************************)
\* the flags after the two that Command::new injects
user_flags == SubSeq(flags, Len(Command_new) + 1, Len(flags))

\* C11, first part: before execute the flags begin with the help flag (h, help)
\* and the version flag (v, version), both Bool(false), and every step that
\* adds a flag puts it after all the flags already there.
C11_InjectedFirstThenInOrder ==
    /\ [](pc = "build" =>
            /\ Len(flags) >= 2
            /\ flags[1] = [ short |-> "h", long |-> "help",
                            description |-> "help for cancer", value |-> Bool(FALSE) ]
            /\ flags[2] = [ short |-> "v", long |-> "version",
                            description |-> "version for cancer", value |-> Bool(FALSE) ]
            /\ (Len(flags) = 2 => get_flags(flags) = << >>))
    /\ [][(pc = "build" /\ pc' = "build") =>
            /\ Len(flags') = Len(flags) + 1
            /\ SubSeq(flags', 1, Len(flags)) = flags
            /\ flags'[Len(flags')] \in UserFlags]_vars

\* C11 as stated: the first part, and get_flags returns n flags after n user
\* flags have been added (0 on a fresh command).
C11_Original ==
    /\ C11_InjectedFirstThenInOrder
    /\ [](pc = "build" => Len(get_flags(flags)) = Len(user_flags))

(***************************************************************************)
(* C12.                                                                    *)
(***************************************************************************)
\* the four terminal outcomes, by what the run printed and called
HelpShown ==
    help_exit(flags) /\ stdout = << help_text(flags) >> /\ runs = << >>

VersionShown ==
    ~help_exit(flags) /\ version_exit(flags)
        /\ stdout = << version_text >> /\ runs = << >>

HandlerInvoked ==
    ~help_exit(flags) /\ ~version_exit(flags) /\ stdout = << >> /\ Len(runs) = 1

NoInput ==
    ~help_exit(flags) /\ ~version_exit(flags)
        /\ stdout = << help_text(flags) >> /\ runs = << >>

\* C12: every run of execute ends in exactly one of HelpShown, VersionShown,
\* HandlerInvoked and NoInput; the handler is called at most once, and never
\* in a run that printed the help or the version text.
C12_ExactlyOneOutcome ==
    Returned =>
        /\ \A outcomes \in
                 { { o \in { "HelpShown", "VersionShown", "HandlerInvoked", "NoInput" } :
                       \/ o = "HelpShown" /\ HelpShown
                       \/ o = "VersionShown" /\ VersionShown
                       \/ o = "HandlerInvoked" /\ HandlerInvoked
                       \/ o = "NoInput" /\ NoInput } } :
              /\ Cardinality(outcomes) = 1
              /\ (pc = "help_exit" <=> "HelpShown" \in outcomes)
              /\ (pc = "version_exit" <=> "VersionShown" \in outcomes)
              /\ (pc = "dispatched" <=> "HandlerInvoked" \in outcomes)
              /\ (pc = "no_input" <=> "NoInput" \in outcomes)
        /\ Len(runs) <= 1
        /\ (stdout # << >> => runs = << >>)

\* a run with two positional tokens called the handler once and printed
\* nothing, and a run with a help token and a positional token printed the help
C12_Witness ==
    \/ /\ raw_args = << OrdinaryPath, "world", "again" >>
       /\ HandlerInvoked
    \/ /\ raw_args = << OrdinaryPath, "world", "--help" >>
       /\ HelpShown

(***************************************************************************)
(* C13.                                                                    *)
(***************************************************************************)
\* the tokens after the program path that do not begin with "-"
user_positionals == SelectSeq(user_tokens, NotDashed)

\* C13: the program path at index 0 takes no part in flag matching or in the
\* dropping of flag tokens: after every run a flag is Bool(true) exactly when a
\* token at index >= 1 matches it, and a handler call gets the first token at
\* index >= 1 that does not begin with "-".
C13_ProgramPathExcluded ==
    Returned =>
        /\ \A i \in 1..Len(flags) :
              flags[i].value = Bool(TRUE) <=> Matched(flags[i], user_tokens)
        /\ (pc = "dispatched" =>
              /\ user_positionals # << >>
              /\ runs[1].text = Head(user_positionals))
        /\ (pc = "no_input" => user_positionals = << >>)

(***************************************************************************)
(* C14.                                                                    *)
(***************************************************************************)
\* C14: when no token after the program path is left among the simple args and
\* neither a help nor a version flag is set, execute of command.rs reads no
\* element of args (at most one is there), calls no handler, prints the help
\* and returns.
C14_NoInputRendersHelp ==
    (Returned /\ user_positionals = << >>
        /\ ~help_exit(flags) /\ ~version_exit(flags)) =>
            /\ pc = "no_input"
            /\ Len(args) <= 1
            /\ runs = << >>
            /\ stdout = << help_text(flags) >>

\* a run with only an unknown flag token after the program path, and a run
\* whose only token is a dashed program path, printed the help
C14_Witness ==
    /\ pc = "no_input"
    /\ stdout = << help_text(flags) >>
    /\ \/ raw_args = << OrdinaryPath, "-x" >> /\ args = << OrdinaryPath >>
       \/ raw_args = << "-f" >> /\ args = << >>

(***************************************************************************)
(* C15.                                                                    *)
(***************************************************************************)
\* the text up to and including the "Flags:" heading
HelpHeading == "gives a friendly hello\n\nUsage:\n  hello TEXT\n\nFlags:\n"

\* the positions from a to b at which the text has a "\n", in increasing order
RECURSIVE NewlinesIn(_, _, _)
NewlinesIn(text, a, b) ==
    IF a > b THEN << >>
    ELSE IF a = b THEN (IF SubSeq(text, a, a) = "\n" THEN << a >> ELSE << >>)
    ELSE NewlinesIn(text, a, (a + b) \div 2) \o NewlinesIn(text, (a + b) \div 2 + 1, b)

\* the lines of the text after its first `after' characters, each without the
\* "\n" that ends it; the text ends with "\n"
LinesOf(text, after) ==
    LET ends == NewlinesIn(text, after + 1, Len(text))
    IN  [ i \in 1..Len(ends) |->
            SubSeq(text, (IF i = 1 THEN after ELSE ends[i - 1]) + 1, ends[i] - 1) ]

\* the line that lists a flag: its two ids and its description, not its value
ListedAs(flag) == "  -" \o flag.short \o ", --" \o flag.long \o "\t" \o flag.description

\* the printed text is a help text
HelpPrinted == pc \in { "help_exit", "no_input" } /\ Len(stdout) = 1

\* from position pos on, the text is the listed line of each flag of fl in
\* turn, each ended by "\n", and nothing else
RECURSIVE ListsFrom(_, _, _)
ListsFrom(text, pos, fl) ==
    IF fl = << >> THEN pos = Len(text) + 1
    ELSE LET line == ListedAs(Head(fl)) \o "\n"
         IN  /\ pos + Len(line) - 1 <= Len(text)
             /\ SubSeq(text, pos, pos + Len(line) - 1) = line
             /\ ListsFrom(text, pos + Len(line), Tail(fl))

\* C15: the default help text is the description, the "Usage:" section and the
\* "Flags:" heading, followed by exactly one line per declared flag in
\* declaration order (help first, version second); the lines show ids and
\* description only, whatever the flags' values are.  The printed text is
\* matched flag by flag; the text of a command not yet run is cut into lines
\* at every "\n" and the lines are counted.
C15_OneLinePerFlagInOrder ==
    /\ HelpPrinted =>
          /\ Len(stdout[1]) >= Len(HelpHeading)
          /\ SubSeq(stdout[1], 1, Len(HelpHeading)) = HelpHeading
          /\ ListsFrom(stdout[1], Len(HelpHeading) + 1, flags)
          /\ ListedAs(flags[1]) = "  -h, --help\thelp for cancer"
          /\ ListedAs(flags[2]) = "  -v, --version\tversion for cancer"
    /\ pc = "build" =>
          \A text \in { help_text(flags) } :
              \A listing \in { LinesOf(text, Len(HelpHeading)) } :
                  /\ SubSeq(text, 1, Len(HelpHeading)) = HelpHeading
                  /\ SubSeq(text, Len(text), Len(text)) = "\n"
                  /\ Len(listing) = Len(flags)
                  /\ \A i \in 1..Len(flags) : listing[i] = ListedAs(flags[i])

\* help was printed for a command with two user flags while a user flag and
\* the help flag were set
C15_Witness ==
    /\ HelpPrinted
    /\ Len(flags) = 4
    /\ flags[1].value = Bool(TRUE)
    /\ flags[3].value = Bool(TRUE)
    /\ flags[4].value # Bool(TRUE)

(***************************************************************************)
(* C16.                                                                    *)
(***************************************************************************)
\* update_flags turned the flags before into the flags after, given argv, and
\* changed nothing but the value of flags that some token of argv matches
OnlyMatchedValuesChange(before, argv, after) ==
    /\ Len(after) = Len(before)
    /\ \A i \in 1..Len(before) :
          /\ after[i].short = before[i].short
          /\ after[i].long = before[i].long
          /\ after[i].description = before[i].description
          /\ (~Matched(before[i], argv) => after[i].value = before[i].value)
          /\ (before[i].value = Bool(TRUE) => after[i].value = Bool(TRUE))
    /\ ((\A k \in 1..Len(argv) : NotDashed(argv[k])) => after = before)

\* argument lists for a second application of update_flags
ShortArgLists == { << p >> \o t : p \in ProgramPaths, t \in SeqsUpTo(Tokens, 1) }

\* C16: update_flags changes nothing but the value of the flags that some
\* token matches: number, order, short id, long id and description of the flags
\* stay, the value of an unmatched flag stays (no flag changes when no token
\* begins with "-"), and a value that is true never becomes false.  Stated of
\* the update_flags of each run, and of update_flags applied once more to the
\* flags a run has left, some of which are true.
C16_OnlyMatchedValuesChange ==
    /\ [][(pc = "build" /\ pc' # "build") =>
            OnlyMatchedValuesChange(flags, raw_args', flags')]_vars
    /\ []((Returned /\ Len(raw_args) <= 2) =>
            \A argv \in ShortArgLists :
                \A after \in { update_flags(flags, argv).flags } :
                    OnlyMatchedValuesChange(flags, argv, after))

\* a run set the flag its token matches and left the other user flag as it was
C16_Witness ==
    /\ raw_args = << OrdinaryPath, "-f", "world" >>
    /\ Len(flags) = 4
    /\ flags[3] = [ new_bool("f", "ferris", "say hello from ferris")
                      EXCEPT !.value = Bool(TRUE) ]
    /\ flags[4] = new_float("v", "ver", "volume")

(***************************************************************************)
(* C17.                                                                    *)
(***************************************************************************)
\* the list with its k-th and (k+1)-th elements exchanged
Swapped(argv, k) ==
    [ i \in 1..Len(argv) |->
        IF i = k THEN argv[k + 1] ELSE IF i = k + 1 THEN argv[k] ELSE argv[i] ]

\* the lists got from argv by moving a flag token over a neighbouring user
\* token, by repeating a flag token, or by appending a positional token when a
\* positional user token is there already
Rearranged(argv) ==
    { Swapped(argv, k) : k \in { j \in 2..(Len(argv) - 1) :
                                   ~NotDashed(argv[j]) \/ ~NotDashed(argv[j + 1]) } }
    \cup { argv \o << argv[k] >> : k \in { j \in 2..Len(argv) : ~NotDashed(argv[j]) } }
    \cup { argv \o << t >> : t \in { s \in { "again" } :
                                   \E j \in 2..Len(argv) : NotDashed(argv[j]) } }

\* C17: the outcome of execute depends only on the set of flag tokens present
\* and on the first non-flag user token: moving a flag token, repeating a flag
\* token or appending a positional token after the first changes neither the
\* exit taken, nor the final flag values, nor what is printed, nor the handler
\* call and its input.
C17_OrderAndRepetitionIrrelevant ==
    pc = "build" =>
        \A argv \in ArgLists :
            \A one \in { execute_result(flags, argv) } :
                \A other \in Rearranged(argv) :
                    /\ execute_result(flags, other).pc = one.pc
                    /\ execute_result(flags, other).flags = one.flags
                    /\ execute_result(flags, other).stdout = one.stdout
                    /\ execute_result(flags, other).runs = one.runs

(***************************************************************************)
(* C18.                                                                    *)
(***************************************************************************)
\* the short id is one of the two reserved ones
Reserved(short) == short = "h" \/ short = "v"

\* the long token of a flag
LongToken(flag) == "--" \o flag.long

\* the parts of C18 that do not concern which of the two exits is taken:
\* add_flag accepts every flag, whatever ids are declared already; the flags
\* handed to the handler are the declared flags whose short id is not reserved;
\* the long token of a user flag with short id "h" gives the help exit; the long
\* token of a user flag with short id "v" never lets the handler run; and every
\* declared flag that a token matches is true after the run.
C18_ReservedByShortIdAlone ==
    /\ (pc = "build" /\ Len(user_flags) < MaxUserFlags) =>
          \A flag \in UserFlags : ENABLED add_flag(flag)
    /\ pc = "dispatched" =>
          /\ \A j \in 1..Len(runs[1].flags) : ~Reserved(runs[1].flags[j].short)
          /\ Len(runs[1].flags) =
               Cardinality({ i \in 1..Len(flags) : ~Reserved(flags[i].short) })
          /\ \A i \in 1..Len(flags) :
                ~Reserved(flags[i].short) => Holds(runs[1].flags, flags[i])
    /\ Returned =>
          \A i \in 1..Len(user_flags) :
              /\ (user_flags[i].short = "h" /\ Holds(user_tokens, LongToken(user_flags[i])))
                    => (pc = "help_exit" /\ runs = << >>)
              /\ (user_flags[i].short = "v" /\ Holds(user_tokens, LongToken(user_flags[i])))
                    => (pc \in { "help_exit", "version_exit" } /\ runs = << >>)
    /\ Returned =>
          \A i \in 1..Len(flags) :
              Matched(flags[i], raw_args) => flags[i].value = Bool(TRUE)

\* C18 as stated: the long token of a user flag with short id "v" gives the
\* version exit.
C18_Original ==
    /\ C18_ReservedByShortIdAlone
    /\ Returned =>
          \A i \in 1..Len(user_flags) :
              (user_flags[i].short = "v" /\ Holds(user_tokens, LongToken(user_flags[i])))
                  => (pc = "version_exit" /\ stdout = << version_text >>)

\* C18 as amended: the long token of a user flag with short id "v" gives the
\* version exit unless a flag with short id "h" is true as well, and then the
\* help exit.
C18_Amended ==
    /\ C18_ReservedByShortIdAlone
    /\ Returned =>
          \A i \in 1..Len(user_flags) :
              (user_flags[i].short = "v" /\ Holds(user_tokens, LongToken(user_flags[i])))
                  => IF help_exit(flags)
                     THEN pc = "help_exit" /\ stdout = << help_text(flags) >>
                     ELSE pc = "version_exit" /\ stdout = << version_text >>

\* the long token of a user flag with short id "h" gave the help exit although
\* the help flag itself is false, and the long token of a user flag with short
\* id "v" gave the version exit although the version flag itself is false
C18_Witness ==
    \/ /\ raw_args = << OrdinaryPath, "--hi", "world" >>
       /\ pc = "help_exit"
       /\ flags[1].value = Bool(FALSE)
       /\ \E i \in 1..Len(user_flags) :
             user_flags[i].short = "h" /\ user_flags[i].value = Bool(TRUE)
    \/ /\ raw_args = << OrdinaryPath, "world", "--ver" >>
       /\ pc = "version_exit"
       /\ flags[2].value = Bool(FALSE)
       /\ \E i \in 1..Len(user_flags) :
             user_flags[i].short = "v" /\ user_flags[i].value = Bool(TRUE)

====
